---- MODULE Spec2Model ----
(***************************************************************************)
(* Model of ymir's project cache: the binary record serializer of          *)
(* src/cache.rs, the Huffman coder of src/huffman.rs, and the cache        *)
(* handling of src/config.rs and src/main.rs.                              *)
(*                                                                         *)
(* Bytes are naturals 0..255 and buffers are sequences of bytes.  u16      *)
(* values are naturals.  u32 and u64 values do not fit 32-bit            *)
(* integers once arbitrary bytes are decoded, so a u32 (u64) is held as    *)
(* its 4 (8) base-256 digits, most significant digit first; to_le_bytes    *)
(* and from_le_bytes reverse the digit order.                              *)
(***************************************************************************)
EXTENDS Integers, Sequences, FiniteSets, TLC

VARIABLES
    recs,       \* codec: the Vec<Project> handed to Cache::serialize
    out1,       \* codec: result of a first Cache::serialize of recs
    out2,       \* codec: result of a second Cache::serialize of recs
    back,       \* codec: result of Cache::deserialize on out1's bytes
    cpc,        \* codec: position ("idle", "start", "once", "twice", "decoded")
    hbuf,       \* huffman: the buffer handed to huffman_encode
    debug,      \* huffman: whether the build checks arithmetic overflow
    henc,       \* huffman: outcome of a first huffman_encode of hbuf
    henc2,      \* huffman: outcome of a second huffman_encode of hbuf
    hdec,       \* huffman: result of huffman_decode on henc's bytes
    hpc,        \* huffman: position ("idle", "start", "encoded", "again", "decoded",
                \*          "freqs", "packed", "merging", "panic")
    hfreq,      \* huffman: the (byte, count) pairs handed to huffman_table
    min_heap,   \* huffman: min_heap of huffman_table
    merges,     \* huffman: iterations of the loop of huffman_table so far
    hpop,       \* huffman: <<left, right>> popped by the last iteration
    hent,       \* huffman: outcome of the table loop of huffman_encode
    file,       \* the cache file on disk: whether it exists, and its bytes
    dmg,        \* load: what has been done to the file since it was written
    loaded,     \* result of Cache::deserialize inside read_cache
    got,        \* the Vec<Project> read_cache returned
    lpc,        \* load: position ("idle", "file", "loaded")
    mode,       \* main: "default", "fresh" (--fresh) or "no-cache" (--no-cache)
    found,      \* main: what projects::find returned in this run
    scanned,    \* main: whether projects::find was called in this run
    saveLog,    \* main: what create_cache did in this run
    shown,      \* main: the `projects` handed to App::new
    pc,         \* main: position ("idle", "start", "display", "exit")
    app,        \* app: the fields of App, with those of its ProjectsList
    key_event,  \* app: the key event App::run read last
    presses     \* app: key events read so far

codecVars == <<recs, out1, out2, back, cpc>>
huffVars == <<hbuf, debug, henc, henc2, hdec, hpc, hfreq, min_heap, merges, hpop, hent>>
loadVars == <<dmg, lpc>>
fileVars == <<file, loaded, got>>
mainVars == <<mode, found, scanned, saveLog, shown, pc>>
appVars == <<app, key_event, presses>>
vars == <<codecVars, huffVars, loadVars, fileVars, mainVars, appVars>>

\* ------------------------------------------------------------------ bounds
MaxProjects == 2
MaxLangs == 2
MaxBufLen == 4
MaxScan == 1
MaxSymbols == 18
MaxKeys == 4

\* ----------------------------------------------------------- byte helpers
RECURSIVE Reverse(_)
Reverse(s) == IF s = <<>> THEN <<>> ELSE Reverse(Tail(s)) \o <<Head(s)>>

RECURSIVE Perms(_)
Perms(S) ==
    IF S = {} THEN {<<>>}
    ELSE UNION {{<<x>> \o p : p \in Perms(S \ {x})} : x \in S}

\* a serializer that wrote its u16 fields with to_be_bytes
U16ToBE(n) == <<n \div 256, n % 256>>

\* u16::to_le_bytes
U16ToLE(n) == <<n % 256, n \div 256>>

\* u16::from_le_bytes
U16FromLE(b) == b[1] + 256 * b[2]

\* u16::MAX
U16MAX == 65535

\* u16::try_from(usize)
U16TryFrom(n) == n <= U16MAX

\* u32::to_le_bytes / u64::to_le_bytes on a digit sequence
WideToLE(x) == Reverse(x)

\* u32::from_le_bytes / u64::from_le_bytes, back to a digit sequence
WideFromLE(b) == Reverse(b)

RECURSIVE Digits(_, _)
Digits(n, w) == IF w = 0 THEN <<>> ELSE Digits(n \div 256, w - 1) \o <<n % 256>>

U32Of(n) == Digits(n, 4)
U64Of(n) == Digits(n, 8)

\* ------------------------------------------------------------------ UTF-8
IsCont(b) == b >= 128 /\ b <= 191

Utf8Width(b) ==
    IF b < 128 THEN 1
    ELSE IF b >= 194 /\ b <= 223 THEN 2
    ELSE IF b >= 224 /\ b <= 239 THEN 3
    ELSE IF b >= 240 /\ b <= 244 THEN 4
    ELSE 0

\* the range the second byte of a sequence led by b must lie in
SecondOk(b, c) ==
    IF b = 224 THEN c >= 160 /\ c <= 191
    ELSE IF b = 237 THEN c >= 128 /\ c <= 159
    ELSE IF b = 240 THEN c >= 144 /\ c <= 191
    ELSE IF b = 244 THEN c >= 128 /\ c <= 143
    ELSE IsCont(c)

\* number of bytes of the well-formed prefix of the sequence that starts at
\* s[i]: equal to Utf8Width(s[i]) exactly when the sequence is valid
GoodPrefix(s, i) ==
    LET w == Utf8Width(s[i])
        n == Len(s)
    IN  IF w = 0 THEN 0
        ELSE IF w = 1 THEN 1
        ELSE IF i + 1 > n \/ ~SecondOk(s[i], s[i + 1]) THEN 1
        ELSE IF w = 2 THEN 2
        ELSE IF i + 2 > n \/ ~IsCont(s[i + 2]) THEN 2
        ELSE IF w = 3 THEN 3
        ELSE IF i + 3 > n \/ ~IsCont(s[i + 3]) THEN 3
        ELSE 4

RECURSIVE ValidFrom(_, _)
ValidFrom(s, i) ==
    IF i > Len(s) THEN TRUE
    ELSE LET w == Utf8Width(s[i])
         IN  w > 0 /\ GoodPrefix(s, i) = w /\ ValidFrom(s, i + w)

\* String::from_utf8 succeeds
IsUtf8(s) == ValidFrom(s, 1)

\* String::from_utf8_lossy: every maximal ill-formed subsequence becomes
\* U+FFFD (EF BF BD).  LossyStep is the number of bytes the sequence that
\* starts at s[i] takes from s, LossyPiece what it becomes
LossyStep(s, i) ==
    IF GoodPrefix(s, i) = 0 THEN 1 ELSE GoodPrefix(s, i)

LossyPiece(s, i) ==
    IF Utf8Width(s[i]) > 0 /\ GoodPrefix(s, i) = Utf8Width(s[i])
    THEN SubSeq(s, i, i + Utf8Width(s[i]) - 1)
    ELSE <<239, 191, 189>>

\* a sequence starts at s[j] unless s[j] is taken by the sequence of the
\* nearest byte before it that is no continuation byte: only continuation
\* bytes are ever taken as the second to fourth byte of a sequence
LossyStart(s, j) ==
    \/ ~IsCont(s[j])
    \/ ~\E p \in (IF j > 3 THEN j - 3 ELSE 1)..(j - 1) :
           /\ ~IsCont(s[p])
           /\ \A q \in (p + 1)..(j - 1) : IsCont(s[q])
           /\ j < p + LossyStep(s, p)

\* what the sequences that start in s[lo..hi] become, in order
RECURSIVE LossyRange(_, _, _)
LossyRange(s, lo, hi) ==
    IF lo > hi THEN <<>>
    ELSE IF lo = hi THEN (IF LossyStart(s, lo) THEN LossyPiece(s, lo) ELSE <<>>)
    ELSE LossyRange(s, lo, (lo + hi) \div 2) \o LossyRange(s, (lo + hi) \div 2 + 1, hi)

\* Path::to_string_lossy
ToStringLossy(s) == LossyRange(s, 1, Len(s))

\* --------------------------------------------------------------- src/cache.rs
MAGIC == <<89, 77, 73, 82>>
VERSION == 1

\* anyhow::Result<Vec<u8>> of the serializers
SerOk(b) == [ok |-> TRUE, bytes |-> b, err |-> ""]
SerErr(e) == [ok |-> FALSE, bytes |-> <<>>, err |-> e]
TryFromIntError == "TryFromIntError"

\* the error values of the deserializers
UnexpectedEof == "UnexpectedEof"
FromUtf8Error == "FromUtf8Error"
MagicMismatch == "Invalid magic value"
VersionMismatch == "Invalid version"

\* a sequence of serializer results evaluated in order with `?`: the first
\* error, or the concatenation of all the bytes
SerJoin(h, rest) ==
    IF ~h.ok THEN h ELSE IF ~rest.ok THEN rest ELSE SerOk(h.bytes \o rest.bytes)

RECURSIVE SerAll(_)
SerAll(rs) == IF rs = <<>> THEN SerOk(<<>>) ELSE SerJoin(Head(rs), SerAll(Tail(rs)))

\* a length prefix written with `s.len() as u16`
LenPrefixedWrapping(s) == SerOk(U16ToLE(Len(s) % 65536) \o s)

\* `u16::try_from(s.len())?.to_le_bytes()` followed by the bytes of s
LenPrefixed(s) ==
    IF U16TryFrom(Len(s)) THEN SerOk(U16ToLE(Len(s)) \o s)
    ELSE SerErr(TryFromIntError)

\* impl CacheSerializer for ProjectLanguage: serialize
ProjectLanguageSerialize(v) ==
    SerOk(WideToLE(v.files) \o WideToLE(v.lines) \o WideToLE(v.code)
          \o WideToLE(v.comments) \o WideToLE(v.blanks))

\* impl CacheSerializer for GitInfo: serialize
GitInfoSerialize(g) ==
    SerAll(<<LenPrefixed(g.remote_url),
             LenPrefixed(g.init_date),
             LenPrefixed(g.last_commit_date),
             LenPrefixed(g.last_commit_msg),
             SerOk(WideToLE(g.commit_count))>>)

\* impl CacheSerializer for HashMap<String, T>: serialize.  order is the
\* sequence of keys in the order `for (key, value) in self` yields them
HashMapSerialize(m, order) ==
    IF ~U16TryFrom(Cardinality(DOMAIN m)) THEN SerErr(TryFromIntError)
    ELSE SerAll(<<SerOk(U16ToLE(Cardinality(DOMAIN m)))>>
                \o [i \in 1..Len(order) |->
                       SerAll(<<LenPrefixed(order[i]),
                                ProjectLanguageSerialize(m[order[i]])>>)])

\* impl CacheSerializer for Project: serialize
ProjectSerialize(p, order) ==
    SerAll(<<LenPrefixed(ToStringLossy(p.path)),
             SerOk(WideToLE(p.size)),
             GitInfoSerialize(p.git_info),
             HashMapSerialize(p.languages, order),
             ProjectLanguageSerialize(p.languages_total)>>)

\* impl CacheSerializer for Cache: serialize.  orders[i] is the iteration
\* order of the languages map of ps[i]
CacheSerialize(ps, orders) ==
    IF ~U16TryFrom(Len(ps)) THEN SerErr(TryFromIntError)
    ELSE SerAll(<<SerOk(MAGIC \o <<VERSION>>), SerOk(U16ToLE(Len(ps)))>>
                \o [i \in 1..Len(ps) |-> ProjectSerialize(ps[i], orders[i])])

\* every iteration order the languages maps of ps may have
IterOrders(ps) ==
    {o \in [1..Len(ps) -> UNION {Perms(DOMAIN ps[i].languages) : i \in 1..Len(ps)}] :
        \A i \in 1..Len(ps) : o[i] \in Perms(DOMAIN ps[i].languages)}

\* anyhow::Result<T> of the deserializers, with the cursor position after it
DeOk(v, p) == [ok |-> TRUE, val |-> v, pos |-> p, err |-> ""]
DeErr(e) == [ok |-> FALSE, val |-> <<>>, pos |-> 0, err |-> e]

\* a read that fills what the input lacks with zeros
ReadExactZeroFill(buf, pos, n) ==
    DeOk([i \in 1..n |-> IF pos + i <= Len(buf) THEN buf[pos + i] ELSE 0], pos + n)

\* Cursor::read_exact of n bytes at position pos (bytes consumed so far)
ReadExact(buf, pos, n) ==
    IF pos + n <= Len(buf) THEN DeOk(SubSeq(buf, pos + 1, pos + n), pos + n)
    ELSE DeErr(UnexpectedEof)

\* `?`: an error ends the function with that error, a value goes on
Then(r, F(_)) == IF r.ok THEN F(r) ELSE r

\* a string read that replaces ill-formed bytes instead of failing
ReadStringLossy(buf, pos) ==
    Then(ReadExact(buf, pos, 2), LAMBDA l :
    Then(ReadExact(buf, l.pos, U16FromLE(l.val)), LAMBDA b :
         DeOk(ToStringLossy(b.val), b.pos)))

\* read a u16 length, that many bytes, and String::from_utf8 of them
ReadString(buf, pos) ==
    Then(ReadExact(buf, pos, 2), LAMBDA l :
    Then(ReadExact(buf, l.pos, U16FromLE(l.val)), LAMBDA b :
         IF IsUtf8(b.val) THEN b ELSE DeErr(FromUtf8Error)))

\* read one u32 (w = 4) or u64 (w = 8)
ReadWide(buf, pos, w) ==
    Then(ReadExact(buf, pos, w), LAMBDA b : DeOk(WideFromLE(b.val), b.pos))

\* impl CacheSerializer for ProjectLanguage: deserialize
ProjectLanguageDeserialize(buf, pos) ==
    Then(ReadWide(buf, pos, 4), LAMBDA files :
    Then(ReadWide(buf, files.pos, 4), LAMBDA lines :
    Then(ReadWide(buf, lines.pos, 4), LAMBDA code :
    Then(ReadWide(buf, code.pos, 4), LAMBDA comments :
    Then(ReadWide(buf, comments.pos, 4), LAMBDA blanks :
         DeOk([files |-> files.val, lines |-> lines.val, code |-> code.val,
               comments |-> comments.val, blanks |-> blanks.val], blanks.pos))))))

\* impl CacheSerializer for GitInfo: deserialize
GitInfoDeserialize(buf, pos) ==
    Then(ReadString(buf, pos), LAMBDA remote_url :
    Then(ReadString(buf, remote_url.pos), LAMBDA init_date :
    Then(ReadString(buf, init_date.pos), LAMBDA last_commit_date :
    Then(ReadString(buf, last_commit_date.pos), LAMBDA last_commit_msg :
    Then(ReadWide(buf, last_commit_msg.pos, 4), LAMBDA commit_count :
         DeOk([remote_url |-> remote_url.val, init_date |-> init_date.val,
               last_commit_date |-> last_commit_date.val,
               last_commit_msg |-> last_commit_msg.val,
               commit_count |-> commit_count.val], commit_count.pos))))))

\* the loop `for _ in 0..hashmap_len` with hashmap.insert(key, value)
RECURSIVE HashMapLoop(_, _, _, _)
HashMapLoop(buf, pos, n, hashmap) ==
    IF n = 0 THEN DeOk(hashmap, pos)
    ELSE Then(ReadString(buf, pos), LAMBDA key :
         Then(ProjectLanguageDeserialize(buf, key.pos), LAMBDA value :
              HashMapLoop(buf, value.pos, n - 1, (key.val :> value.val) @@ hashmap)))

\* impl CacheSerializer for HashMap<String, T>: deserialize
HashMapDeserialize(buf, pos) ==
    Then(ReadExact(buf, pos, 2), LAMBDA hashmap_len :
         HashMapLoop(buf, hashmap_len.pos, U16FromLE(hashmap_len.val), <<>>))

\* impl CacheSerializer for Project: deserialize
ProjectDeserialize(buf, pos) ==
    Then(ReadString(buf, pos), LAMBDA path :
    Then(ReadWide(buf, path.pos, 8), LAMBDA size :
    Then(GitInfoDeserialize(buf, size.pos), LAMBDA git_info :
    Then(HashMapDeserialize(buf, git_info.pos), LAMBDA languages :
    Then(ProjectLanguageDeserialize(buf, languages.pos), LAMBDA languages_total :
         DeOk([path |-> path.val, size |-> size.val, git_info |-> git_info.val,
               languages |-> languages.val,
               languages_total |-> languages_total.val], languages_total.pos))))))

\* anyhow::Result<Cache> of Cache::deserialize; on an error `partial` holds
\* the records the local Vec had received before it, which are dropped
CacheOk(projects) == [ok |-> TRUE, projects |-> projects, partial |-> projects, err |-> ""]
CacheErr(e, pushed) == [ok |-> FALSE, projects |-> <<>>, partial |-> pushed, err |-> e]

\* `?` inside Cache::deserialize
ThenCache(r, pushed, F(_)) == IF r.ok THEN F(r) ELSE CacheErr(r.err, pushed)

\* a cache that stops at the first record it cannot decode and keeps the
\* records before it
RECURSIVE ProjectsLoopKeep(_, _, _, _)
ProjectsLoopKeep(buf, pos, n, projects) ==
    IF n = 0 \/ ~ProjectDeserialize(buf, pos).ok THEN CacheOk(projects)
    ELSE ProjectsLoopKeep(buf, ProjectDeserialize(buf, pos).pos, n - 1,
                          Append(projects, ProjectDeserialize(buf, pos).val))

\* the loop `for _ in 0..projects_len { projects.push(...) }`
RECURSIVE ProjectsLoop(_, _, _, _)
ProjectsLoop(buf, pos, n, projects) ==
    IF n = 0 THEN CacheOk(projects)
    ELSE ThenCache(ProjectDeserialize(buf, pos), projects, LAMBDA p :
             ProjectsLoop(buf, p.pos, n - 1, Append(projects, p.val)))

\* Cache::deserialize with the version compared before the magic
CacheDeserializeVersionFirst(buf) ==
    ThenCache(ReadExact(buf, 0, 4), <<>>, LAMBDA magic :
    ThenCache(ReadExact(buf, magic.pos, 1), <<>>, LAMBDA version :
        IF version.val[1] # VERSION THEN CacheErr(VersionMismatch, <<>>)
        ELSE IF magic.val # MAGIC THEN CacheErr(MagicMismatch, <<>>) ELSE
    ThenCache(ReadExact(buf, version.pos, 2), <<>>, LAMBDA len_bytes :
        ProjectsLoop(buf, len_bytes.pos, U16FromLE(len_bytes.val), <<>>))))

\* impl CacheSerializer for Cache: deserialize, on a cursor at position 0
CacheDeserialize(buf) ==
    ThenCache(ReadExact(buf, 0, 4), <<>>, LAMBDA magic :
        IF magic.val # MAGIC THEN CacheErr(MagicMismatch, <<>>) ELSE
    ThenCache(ReadExact(buf, magic.pos, 1), <<>>, LAMBDA version :
        IF version.val[1] # VERSION THEN CacheErr(VersionMismatch, <<>>) ELSE
    ThenCache(ReadExact(buf, version.pos, 2), <<>>, LAMBDA len_bytes :
        ProjectsLoop(buf, len_bytes.pos, U16FromLE(len_bytes.val), <<>>))))

\* ------------------------------------------------------------- src/huffman.rs
\* MinHeapNode: data is <<>> (None) or <<byte>>, kids is <<>> (a leaf) or
\* <<left, right>>
MinHeapNodeNew(data, freq) == [data |-> data, freq |-> freq, kids |-> <<>>]

\* the internal node `top` of huffman_table
Top(left, right) == [data |-> <<>>, freq |-> left.freq + right.freq, kids |-> <<left, right>>]

\* the byte values of a buffer and how often each occurs
Distinct(buffer) == {buffer[i] : i \in 1..Len(buffer)}
Occurrences(buffer, c) == Cardinality({i \in 1..Len(buffer) : buffer[i] = c})

\* get_frequencies: the (byte, count) pairs by count descending.  The pairs
\* leave the HashMap in any order and the stable sort compares counts only,
\* so pairs of equal count may come in any order: the set of possible results
GetFrequencies(buffer) ==
    {[i \in 1..Len(p) |-> <<p[i], Occurrences(buffer, p[i])>>] : p \in
        {q \in Perms(Distinct(buffer)) :
            \A i \in 1..(Len(q) - 1) :
                Occurrences(buffer, q[i]) >= Occurrences(buffer, q[i + 1])}}

\* a pop that takes a node of greatest freq, as BinaryHeap does without the
\* reversed `Ord`
PopGreatest(heap) == {n \in heap : \A m \in heap : n.freq >= m.freq}

\* BinaryHeap::pop under `Ord for MinHeapNode`, which compares freq only (and
\* reversed): a node of least freq, any one of them when several are least
PopCandidates(heap) == {n \in heap : \A m \in heap : n.freq <= m.freq}

\* the loop `while min_heap.len() != 1` of huffman_table, from a heap of two
\* or more nodes: the set of roots it can end with
RECURSIVE MergeLoop(_)
MergeLoop(heap) ==
    IF Cardinality(heap) = 1 THEN heap
    ELSE UNION {UNION {MergeLoop((heap \ {left, right}) \cup {Top(left, right)}) :
                       right \in PopCandidates(heap \ {left})} :
                left \in PopCandidates(heap)}

\* huffman_table: the roots it can return for the pairs fs; on no pair at all
\* the loop pops an empty heap and `unwrap` panics, which is the empty set here
HuffmanTable(fs) ==
    IF fs = <<>> THEN {}
    ELSE MergeLoop({MinHeapNodeNew(<<fs[i][1]>>, fs[i][2]) : i \in 1..Len(fs)})

\* a lookup_table that pushes 0 for the right child as well
RECURSIVE LookupTableSameBit(_, _)
LookupTableSameBit(root, code) ==
    (IF root.kids = <<>> THEN <<>>
     ELSE LookupTableSameBit(root.kids[2], Append(code, 0))
          @@ LookupTableSameBit(root.kids[1], Append(code, 0)))
    @@ (IF root.data = <<>> THEN <<>> ELSE root.data[1] :> code)

\* lookup_table: the HashMap<u8, Vec<u8>> filled from root with prefix code
RECURSIVE LookupTable(_, _)
LookupTable(root, code) ==
    (IF root.kids = <<>> THEN <<>>
     ELSE LookupTable(root.kids[2], Append(code, 1))
          @@ LookupTable(root.kids[1], Append(code, 0)))
    @@ (IF root.data = <<>> THEN <<>> ELSE root.data[1] :> code)

RECURSIVE Pow2(_)
Pow2(n) == IF n = 0 THEN 1 ELSE 2 * Pow2(n - 1)

RECURSIVE SumPow2(_)
SumPow2(S) == IF S = {} THEN 0
              ELSE LET x == CHOOSE y \in S : TRUE IN Pow2(x) + SumPow2(S \ {x})

\* `packed_code |= 1 << (15 - i)` for every 1 bit of code.  With overflow
\* checks off, `15 - i` wraps and the shift amount is taken modulo 16
PackedCode(code) ==
    SumPow2({(15 - (i - 1)) % 16 : i \in {j \in 1..Len(code) : code[j] = 1}})

\* with overflow checks on, `15 - i` panics for a 1 bit at index 16 or more
PackPanics(code) == \E j \in 1..Len(code) : code[j] = 1 /\ j - 1 > 15

\* table_bytes: the entries of table in the order `for (char, code) in &table`
\* yields them
TableBytes(table, order) ==
    [k \in 1..(4 * Len(order)) |->
        LET c == order[(k - 1) \div 4 + 1]
        IN  CASE (k - 1) % 4 = 0 -> c
              [] (k - 1) % 4 = 1 -> Len(table[c]) % 256
              [] (k - 1) % 4 = 2 -> U16ToLE(PackedCode(table[c]))[1]
              [] OTHER -> U16ToLE(PackedCode(table[c]))[2]]

\* bit_stream: the codes of the buffer's bytes, in buffer order
RECURSIVE BitStream(_, _)
BitStream(buffer, table) ==
    IF buffer = <<>> THEN <<>> ELSE table[Head(buffer)] \o BitStream(Tail(buffer), table)

\* a packing that puts the first bit in bit 0
ByteOfLsbFirst(bits) ==
    SumPow2({i - 1 : i \in {j \in 1..Len(bits) : bits[j] = 1}})

\* one byte from up to 8 bits, first bit in bit 7, missing bits 0
ByteOf(bits) ==
    SumPow2({8 - i : i \in {j \in 1..Len(bits) : bits[j] = 1}})

\* the packing loop and the final partial byte
PackBits(bits) ==
    [k \in 1..((Len(bits) + 7) \div 8) |->
        ByteOf(SubSeq(bits, 8 * (k - 1) + 1,
                      IF 8 * k <= Len(bits) THEN 8 * k ELSE Len(bits)))]

\* outcome of huffman_encode: a panic, or the bytes returned together with
\* the tree and the table they were made from
EncPanic == [panic |-> TRUE, bytes |-> <<>>, table |-> <<>>, root |-> <<>>]
EncDone(root, table, bytes) == [panic |-> FALSE, bytes |-> bytes, table |-> table, root |-> <<root>>]

\* new_buffer of huffman_encode for one root and one table iteration order
NewBuffer(buffer, table, order) ==
    U16ToLE(Len(TableBytes(table, order)) % 65536)
        \o TableBytes(table, order) \o PackBits(BitStream(buffer, table))

\* outcome of the loop `for (char, code) in &table` alone: a panic, or the
\* 4-byte entries written, with the table they were made from.  The function
\* returns a Vec<u8>, so there is no error outcome: err is always ""
NoEntries == [panic |-> FALSE, err |-> "", entries |-> {}, table |-> <<>>]
TableLoop(table, checked) ==
    IF checked /\ \E c \in DOMAIN table : PackPanics(table[c])
    THEN [panic |-> TRUE, err |-> "", entries |-> {}, table |-> table]
    ELSE [panic |-> FALSE, err |-> "",
          entries |-> {TableBytes(table, <<c>>) : c \in DOMAIN table}, table |-> table]

\* huffman_encode: every outcome it can have on buffer, one for each root
\* huffman_table can return and each iteration order of the table
HuffmanEncodeOutcomes(buffer, checked) ==
    IF buffer = <<>> THEN {EncPanic}
    ELSE UNION {
            LET table == LookupTable(root, <<>>)
            IN  IF checked /\ \E c \in DOMAIN table : PackPanics(table[c])
                THEN {EncPanic}
                ELSE {EncDone(root, table, NewBuffer(buffer, table, order)) :
                          order \in Perms(DOMAIN table)}
            : root \in UNION {HuffmanTable(fs) : fs \in GetFrequencies(buffer)}}

\* anyhow::Result<Vec<u8>> of huffman_decode, or a panic
DecOk(b) == [ok |-> TRUE, panic |-> FALSE, bytes |-> b, err |-> ""]
DecErr(e) == [ok |-> FALSE, panic |-> FALSE, bytes |-> <<>>, err |-> e]
DecPanic == [ok |-> FALSE, panic |-> TRUE, bytes |-> <<>>, err |-> "panic"]

\* a reading of the code from the low bits of packed_code
CodeBitsLowFirst(packed_code, packed_code_len) ==
    [k \in 1..packed_code_len |-> (packed_code \div Pow2((k - 1) % 16)) % 2]

\* `(packed_code >> (15 - i)) & 1` for i in 0..packed_code_len, with the
\* shift amount wrapped as a build without overflow checks wraps it
CodeBits(packed_code, packed_code_len) ==
    [k \in 1..packed_code_len |-> (packed_code \div Pow2((15 - (k - 1)) % 16)) % 2]

\* the table loop of huffman_decode: entries are read while the cursor is
\* before table_size + 2; the result is the table and the cursor position,
\* an error of read_exact, or a panic of `15 - i`
RECURSIVE DecodeTable(_, _, _, _, _)
DecodeTable(buffer, pos, table_size, table, checked) ==
    IF ~(pos < table_size + 2) THEN DeOk(table, pos)
    ELSE IF pos + 4 > Len(buffer) THEN DeErr(UnexpectedEof)
    ELSE IF checked /\ buffer[pos + 2] > 16 THEN DeErr("panic")
    ELSE DecodeTable(buffer, pos + 4, table_size,
             (CodeBits(U16FromLE(SubSeq(buffer, pos + 3, pos + 4)), buffer[pos + 2])
                  :> buffer[pos + 1]) @@ table,
             checked)

\* bit_stream of huffman_decode: the bits of the bytes from position pos on
BitsOf(buffer, pos) ==
    [k \in 1..(8 * (Len(buffer) - pos)) |->
        (buffer[pos + (k - 1) \div 8 + 1] \div Pow2(7 - ((k - 1) % 8))) % 2]

\* the loop over bit_stream: current_code grows bit by bit and is emitted
\* and cleared as soon as the table has it
RECURSIVE DecodeBits(_, _, _, _, _)
DecodeBits(bits, k, current_code, table, decoded_bytes) ==
    IF k > Len(bits) THEN decoded_bytes
    ELSE IF Append(current_code, bits[k]) \in DOMAIN table
         THEN DecodeBits(bits, k + 1, <<>>, table,
                         Append(decoded_bytes, table[Append(current_code, bits[k])]))
         ELSE DecodeBits(bits, k + 1, Append(current_code, bits[k]), table, decoded_bytes)

\* the rest of huffman_decode once the table loop has ended with t
DecodeRest(buffer, t) ==
    IF t.ok THEN DecOk(DecodeBits(BitsOf(buffer, t.pos), 1, <<>>, t.val, <<>>))
    ELSE IF t.err = "panic" THEN DecPanic
    ELSE DecErr(t.err)

\* huffman_decode
HuffmanDecode(buffer, checked) ==
    IF Len(buffer) < 2 THEN DecErr(UnexpectedEof)
    ELSE DecodeRest(buffer,
             DecodeTable(buffer, 2, U16FromLE(SubSeq(buffer, 1, 2)), <<>>, checked))

\* -------------------------------------------------------------- src/config.rs
\* the cache file: absent, or present with some bytes
NoFile == [exists |-> FALSE, bytes |-> <<>>]
FileOf(b) == [exists |-> TRUE, bytes |-> b]

\* what read_cache gets before `unwrap_or_default`: no config directory, no
\* readable file ("Failed to find file"), or the result of Cache::deserialize
ReadCacheResult(config_dir, f) ==
    IF ~config_dir THEN CacheErr("no config_dir", <<>>)
    ELSE IF ~f.exists THEN CacheErr("fs::read failed", <<>>)
    ELSE CacheDeserialize(f.bytes)

\* Result::unwrap_or_default on a Result<Cache>, then `.projects`
UnwrapOrDefault(r) == IF r.ok THEN r.projects ELSE <<>>

\* Cache::read_cache
ReadCache(config_dir, f) == UnwrapOrDefault(ReadCacheResult(config_dir, f))

\* Cache::create_cache on a disk holding f.  pre_ok: pre_config succeeded;
\* write_ok: fs::write succeeded; orders: the iteration orders of the
\* languages maps.  The result is the anyhow::Result<Cache>, the file
\* afterwards and what was done ("bail", "exists", "wrote", "write failed")
CreateCache(projects, f, pre_ok, write_ok, orders) ==
    LET serialized == CacheSerialize(projects, orders)
    IN  IF ~pre_ok \/ ~serialized.ok
        THEN [ok |-> FALSE, projects |-> <<>>, file |-> f, log |-> "bail"]
        ELSE IF f.exists
        THEN [ok |-> TRUE, projects |-> projects, file |-> f, log |-> "exists"]
        ELSE IF write_ok
        THEN [ok |-> TRUE, projects |-> projects,
              file |-> FileOf(serialized.bytes), log |-> "wrote"]
        ELSE [ok |-> TRUE, projects |-> projects, file |-> f, log |-> "write failed"]

\* ---------------------------------------------------------------- src/main.rs
\* main with a cache it cannot use treated as a fatal error
LoadProjectsStrict(m, f, fnd, pre_ok, write_ok, orders) ==
    LET created == CreateCache(fnd, f, pre_ok, write_ok, orders)
        cache == ReadCacheResult(TRUE, f)
    IN  IF m = "no-cache"
        THEN [exit |-> FALSE, projects |-> fnd, file |-> f, scanned |-> TRUE,
              log |-> "none", loaded |-> CacheErr("none", <<>>)]
        ELSE IF m = "fresh"
        THEN [exit |-> FALSE, projects |-> UnwrapOrDefault(created),
              file |-> created.file, scanned |-> TRUE, log |-> created.log,
              loaded |-> CacheErr("none", <<>>)]
        ELSE IF ~cache.ok
        THEN [exit |-> TRUE, projects |-> <<>>, file |-> f, scanned |-> FALSE,
              log |-> "none", loaded |-> cache]
        ELSE IF cache.projects = <<>>
        THEN [exit |-> FALSE, projects |-> UnwrapOrDefault(created),
              file |-> created.file, scanned |-> TRUE, log |-> created.log,
              loaded |-> cache]
        ELSE [exit |-> FALSE, projects |-> cache.projects, file |-> f,
              scanned |-> FALSE, log |-> "none", loaded |-> cache]

\* main with --no-cache saving what it scanned, as --fresh does
LoadProjectsNoCacheSaves(m, f, fnd, pre_ok, write_ok, orders) ==
    LET created == CreateCache(fnd, f, pre_ok, write_ok, orders)
        cache == ReadCacheResult(TRUE, f)
    IN  IF m \in {"no-cache", "fresh"}
        THEN [exit |-> FALSE, projects |-> UnwrapOrDefault(created),
              file |-> created.file, scanned |-> TRUE, log |-> created.log,
              loaded |-> CacheErr("none", <<>>)]
        ELSE IF UnwrapOrDefault(cache) = <<>>
        THEN [exit |-> FALSE, projects |-> UnwrapOrDefault(created),
              file |-> created.file, scanned |-> TRUE, log |-> created.log,
              loaded |-> cache]
        ELSE [exit |-> FALSE, projects |-> UnwrapOrDefault(cache), file |-> f,
              scanned |-> FALSE, log |-> "none", loaded |-> cache]

\* `let projects = if no-cache { find } else if fresh { create_cache(find) }
\* else { read_cache, and create_cache(find) when it is empty }` of main.
\* fnd is what projects::find returns when it is called
LoadProjects(m, f, fnd, pre_ok, write_ok, orders) ==
    LET created == CreateCache(fnd, f, pre_ok, write_ok, orders)
        cache == ReadCacheResult(TRUE, f)
    IN  IF m = "no-cache"
        THEN [exit |-> FALSE, projects |-> fnd, file |-> f, scanned |-> TRUE,
              log |-> "none", loaded |-> CacheErr("none", <<>>)]
        ELSE IF m = "fresh"
        THEN [exit |-> FALSE, projects |-> UnwrapOrDefault(created),
              file |-> created.file, scanned |-> TRUE, log |-> created.log,
              loaded |-> CacheErr("none", <<>>)]
        ELSE IF UnwrapOrDefault(cache) = <<>>
        THEN [exit |-> FALSE, projects |-> UnwrapOrDefault(created),
              file |-> created.file, scanned |-> TRUE, log |-> created.log,
              loaded |-> cache]
        ELSE [exit |-> FALSE, projects |-> UnwrapOrDefault(cache), file |-> f,
              scanned |-> FALSE, log |-> "none", loaded |-> cache]

\* ------------------------------------------------ the records of the model
\* language keys: "a", "b", ...
LangKeys == {<<96 + i>> : i \in 1..MaxLangs}

NoStats == [files |-> U32Of(0), lines |-> U32Of(0), code |-> U32Of(0),
            comments |-> U32Of(0), blanks |-> U32Of(0)]
SomeStats == [files |-> U32Of(3), lines |-> U32Of(120), code |-> U32Of(100),
              comments |-> U32Of(10), blanks |-> U32Of(10)]

\* GitInfo::default(), with "Unknown" shortened to "U"
UnknownGit == [remote_url |-> <<85>>, init_date |-> <<85>>,
               last_commit_date |-> <<85>>, last_commit_msg |-> <<85>>,
               commit_count |-> U32Of(0)]
\* a repository with a remote "g", dates "1" and "2", message "é", 300 commits
SomeGit == [remote_url |-> <<103>>, init_date |-> <<49>>,
            last_commit_date |-> <<50>>, last_commit_msg |-> <<195, 169>>,
            commit_count |-> U32Of(300)]

\* a project without source files, at path "p"
BareProject == [path |-> <<112>>, size |-> U64Of(0), git_info |-> UnknownGit,
                languages |-> [k \in {} |-> NoStats], languages_total |-> NoStats]
\* a project in one language, at path "q"
OneLangProject == [path |-> <<113>>, size |-> U64Of(4096), git_info |-> SomeGit,
                   languages |-> [k \in {<<97>>} |-> SomeStats],
                   languages_total |-> SomeStats]
\* a project in every language, at path "r"
ManyLangProject == [path |-> <<114>>, size |-> U64Of(70000), git_info |-> SomeGit,
                    languages |-> [k \in LangKeys |->
                                      IF k = <<97>> THEN SomeStats ELSE NoStats],
                    languages_total |-> SomeStats]
\* a project whose directory name is not UTF-8: path "s", 0xFF
OddPathProject == [BareProject EXCEPT !.path = <<115, 255>>]

ProjectPool == {BareProject, OneLangProject, ManyLangProject, OddPathProject}

RECURSIVE ListsUpTo(_, _)
ListsUpTo(S, n) ==
    IF n = 0 THEN {<<>>}
    ELSE LET shorter == ListsUpTo(S, n - 1)
         IN  shorter \cup {Append(l, x) : l \in {m \in shorter : Len(m) = n - 1}, x \in S}

\* ------------------------------------------------------ the codec alone
NoSer == SerErr("none")
NoCache == CacheErr("none", <<>>)
NoDec == DecErr("none")

IdleCodec ==
    /\ recs = <<>>
    /\ out1 = NoSer
    /\ out2 = NoSer
    /\ back = NoCache
    /\ cpc = "idle"

IdleTree ==
    /\ hfreq = <<>>
    /\ min_heap = {}
    /\ merges = 0
    /\ hpop = <<>>
    /\ hent = NoEntries

IdleHuff ==
    /\ hbuf = <<>>
    /\ debug = FALSE
    /\ henc = EncPanic
    /\ henc2 = EncPanic
    /\ hdec = NoDec
    /\ hpc = "idle"
    /\ IdleTree

IdleLoad ==
    /\ dmg = {}
    /\ lpc = "idle"

IdleFile ==
    /\ file = NoFile
    /\ loaded = NoCache
    /\ got = <<>>

\* no App has been made and no key read
NoKey == [kind |-> "None", code |-> "None", c |-> 0]

IdleApp ==
    /\ app = <<>>
    /\ key_event = NoKey
    /\ presses = 0

IdleMain ==
    /\ mode = "default"
    /\ found = <<>>
    /\ scanned = FALSE
    /\ saveLog = "none"
    /\ shown = <<>>
    /\ pc = "idle"

InitCodec ==
    /\ recs \in ListsUpTo(ProjectPool, MaxProjects)
    /\ out1 = NoSer
    /\ out2 = NoSer
    /\ back = NoCache
    /\ cpc = "start"
    /\ IdleHuff /\ IdleLoad /\ IdleFile /\ IdleMain
    /\ IdleApp

\* a first run serializes recs
SerializeFirst ==
    /\ cpc = "start"
    /\ \E orders \in IterOrders(recs) : out1' = CacheSerialize(recs, orders)
    /\ cpc' = "once"
    /\ UNCHANGED <<appVars, recs, out2, back, huffVars, loadVars, fileVars, mainVars>>

\* a second run serializes the same recs
SerializeSecond ==
    /\ cpc = "once"
    /\ \E orders \in IterOrders(recs) : out2' = CacheSerialize(recs, orders)
    /\ cpc' = "twice"
    /\ UNCHANGED <<appVars, recs, out1, back, huffVars, loadVars, fileVars, mainVars>>

\* the bytes of the first run are deserialized
DeserializeFirst ==
    /\ cpc = "once"
    /\ out1.ok
    /\ back' = CacheDeserialize(out1.bytes)
    /\ cpc' = "decoded"
    /\ UNCHANGED <<appVars, recs, out1, out2, huffVars, loadVars, fileVars, mainVars>>

NextCodec == SerializeFirst \/ SerializeSecond \/ DeserializeFirst

SpecCodec == InitCodec /\ [][NextCodec]_vars

\* ------------------------------------------------- the Huffman coder alone
\* the byte values buffers are made of
HuffBytes == {0, 1, 255}

\* buffers whose bit stream takes more than one byte: a buffer of
\* MaxBufLen - 1 bytes three times over
HuffLong ==
    {b \o b \o b : b \in {l \in ListsUpTo(HuffBytes, MaxBufLen) : Len(l) = MaxBufLen - 1}}

InitHuff ==
    /\ hbuf \in ListsUpTo(HuffBytes, MaxBufLen) \cup HuffLong
    /\ debug \in BOOLEAN
    /\ henc = EncPanic
    /\ henc2 = EncPanic
    /\ hdec = NoDec
    /\ hpc = "start"
    /\ IdleTree
    /\ IdleCodec /\ IdleLoad /\ IdleFile /\ IdleMain
    /\ IdleApp

\* a first execution of huffman_encode(hbuf)
HuffEncode ==
    /\ hpc = "start"
    /\ \E o \in HuffmanEncodeOutcomes(hbuf, debug) : henc' = o
    /\ hpc' = "encoded"
    /\ UNCHANGED <<appVars, hbuf, debug, henc2, hdec, hfreq, min_heap, merges, hpop, hent,
                   codecVars, loadVars, fileVars, mainVars>>

\* a second execution of huffman_encode(hbuf)
HuffEncodeAgain ==
    /\ hpc = "encoded"
    /\ \E o \in HuffmanEncodeOutcomes(hbuf, debug) : henc2' = o
    /\ hpc' = "again"
    /\ UNCHANGED <<appVars, hbuf, debug, henc, hdec, hfreq, min_heap, merges, hpop, hent,
                   codecVars, loadVars, fileVars, mainVars>>

\* huffman_decode of the bytes of the first execution
HuffDecode ==
    /\ hpc = "encoded"
    /\ ~henc.panic
    /\ hdec' = HuffmanDecode(henc.bytes, debug)
    /\ hpc' = "decoded"
    /\ UNCHANGED <<appVars, hbuf, debug, henc, henc2, hfreq, min_heap, merges, hpop, hent,
                   codecVars, loadVars, fileVars, mainVars>>

NextHuff == HuffEncode \/ HuffEncodeAgain \/ HuffDecode

SpecHuff == InitHuff /\ [][NextHuff]_vars

\* ------------------------------------ huffman_decode of bytes of any origin
\* the bytes after the table size: symbols, code lengths within and beyond
\* 16, code and data bytes
DecBytes == {0, 17, 128}

\* no table size, half of one, or a table size of no entry, of part of an
\* entry, of one entry, of more than one, of two
DecHeads == {<<>>, <<0>>, <<0, 0>>, <<3, 0>>, <<4, 0>>, <<5, 0>>, <<8, 0>>}

InitDecode ==
    /\ hbuf \in {h \o b : h \in DecHeads, b \in ListsUpTo(DecBytes, MaxBufLen + 1)}
    /\ debug \in BOOLEAN
    /\ henc = EncPanic
    /\ henc2 = EncPanic
    /\ hdec = NoDec
    /\ hpc = "input"
    /\ IdleTree
    /\ IdleCodec /\ IdleLoad /\ IdleFile /\ IdleMain
    /\ IdleApp

\* huffman_decode(hbuf)
DecodeAny ==
    /\ hpc = "input"
    /\ hdec' = HuffmanDecode(hbuf, debug)
    /\ hpc' = "parsed"
    /\ UNCHANGED <<appVars, hbuf, debug, henc, henc2, hfreq, min_heap, merges, hpop, hent,
                   codecVars, loadVars, fileVars, mainVars>>

SpecDecode == InitDecode /\ [][DecodeAny]_vars

\* ------------------------------------------- the code table of a deep tree
RECURSIVE Pow(_, _)
Pow(b, e) == IF e = 0 THEN 1 ELSE b * Pow(b, e - 1)

\* what get_frequencies returns for a buffer of n byte values 0..n-1 in
\* which each value occurs b times as often as the next more frequent one
\* does not: counts b^(n-1), ..., b, 1, which make every merge unequal
PowFreqs(n, b) == [i \in 1..n |-> <<i - 1, Pow(b, n - i)>>]

InitTable ==
    /\ hfreq \in {PowFreqs(n, b) : n \in 1..MaxSymbols, b \in {2, 3}}
    /\ debug \in BOOLEAN
    /\ hbuf = <<>>
    /\ henc = EncPanic
    /\ henc2 = EncPanic
    /\ hdec = NoDec
    /\ min_heap = {}
    /\ merges = 0
    /\ hpop = <<>>
    /\ hent = NoEntries
    /\ hpc = "freqs"
    /\ IdleCodec /\ IdleLoad /\ IdleFile /\ IdleMain
    /\ IdleApp

\* huffman_encode from huffman_table to the end of the table loop
PackTable ==
    /\ hpc = "freqs"
    /\ \E root \in HuffmanTable(hfreq) :
          hent' = TableLoop(LookupTable(root, <<>>), debug)
    /\ hpc' = "packed"
    /\ UNCHANGED <<appVars, hbuf, debug, henc, henc2, hdec, hfreq, min_heap, merges, hpop,
                   codecVars, loadVars, fileVars, mainVars>>

SpecTable == InitTable /\ [][PackTable]_vars

\* --------------------------------------- huffman_table, one merge at a time
TreeBytes == HuffBytes \cup {2}

\* huffman_table after its push loop: one leaf per (byte, count) pair
InitTree ==
    /\ hbuf \in ListsUpTo(TreeBytes, MaxBufLen)
    /\ hfreq \in GetFrequencies(hbuf)
    /\ min_heap = {MinHeapNodeNew(<<hfreq[i][1]>>, hfreq[i][2]) : i \in 1..Len(hfreq)}
    /\ merges = 0
    /\ hpop = <<>>
    /\ debug = FALSE
    /\ henc = EncPanic
    /\ henc2 = EncPanic
    /\ hdec = NoDec
    /\ hent = NoEntries
    /\ hpc = "merging"
    /\ IdleCodec /\ IdleLoad /\ IdleFile /\ IdleMain
    /\ IdleApp

\* one iteration of `while min_heap.len() != 1` with two nodes to pop
HeapMerge ==
    /\ hpc = "merging"
    /\ Cardinality(min_heap) >= 2
    /\ \E left \in PopCandidates(min_heap) :
       \E right \in PopCandidates(min_heap \ {left}) :
          /\ min_heap' = (min_heap \ {left, right}) \cup {Top(left, right)}
          /\ hpop' = <<left, right>>
    /\ merges' = merges + 1
    /\ UNCHANGED <<appVars, hbuf, debug, henc, henc2, hdec, hpc, hfreq, hent,
                   codecVars, loadVars, fileVars, mainVars>>

\* the loop entered with an empty heap: `min_heap.pop().unwrap()` panics
HeapPanic ==
    /\ hpc = "merging"
    /\ min_heap = {}
    /\ hpc' = "panic"
    /\ UNCHANGED <<appVars, hbuf, debug, henc, henc2, hdec, hfreq, min_heap, merges, hpop,
                   hent, codecVars, loadVars, fileVars, mainVars>>

\* the loop ends with one node and huffman_table returns the heap
HeapReturn ==
    /\ hpc = "merging"
    /\ Cardinality(min_heap) = 1
    /\ hpc' = "root"
    /\ UNCHANGED <<appVars, hbuf, debug, henc, henc2, hdec, hfreq, min_heap, merges, hpop,
                   hent, codecVars, loadVars, fileVars, mainVars>>

NextTree == HeapMerge \/ HeapPanic \/ HeapReturn

SpecTree == InitTree /\ [][NextTree]_vars

\* ------------------------------------- serializing at the limit of a u16
\* n bytes b
RECURSIVE Long(_, _)
Long(n, b) ==
    IF n = 0 THEN <<>>
    ELSE IF n = 1 THEN <<b>>
    ELSE Long(n \div 2, b) \o Long(n - n \div 2, b)

\* string lengths around the greatest a u16 holds
NearLimit == (U16MAX - 1)..(U16MAX + 2)

\* BareProject with one string of a length near the limit: the path, as
\* bytes 'a' or as bytes 'a' before one 0xFF that is written as three bytes,
\* the remote url, the commit message, or the name of its only language
LongProjects ==
    {[BareProject EXCEPT !.path = Long(n, 97)] : n \in NearLimit}
    \cup {[BareProject EXCEPT !.path = Long(n - 3, 97) \o <<255>>] : n \in NearLimit}
    \cup {[BareProject EXCEPT !.git_info.remote_url = Long(n, 97)] : n \in NearLimit}
    \cup {[BareProject EXCEPT !.git_info.last_commit_msg = Long(n, 97)] : n \in NearLimit}
    \cup {[BareProject EXCEPT !.languages = Long(n, 97) :> SomeStats] : n \in NearLimit}

\* the i-th of 65536 language names of four letters 'a'..'p'
LangName(i) ==
    <<97 + (i \div 4096), 97 + ((i \div 256) % 16), 97 + ((i \div 16) % 16), 97 + (i % 16)>>

\* a project with 65536 languages
CrowdedProject ==
    [BareProject EXCEPT !.languages = [k \in {LangName(i) : i \in 0..U16MAX} |-> NoStats]]

\* the lists of the model: a project of LongProjects alone, before or after
\* a short one; one project with 65536 languages; 65536 projects; short
\* lists
LongLists ==
    UNION {{<<p>>, <<p, OneLangProject>>, <<OneLangProject, p>>} : p \in LongProjects}
    \cup {<<CrowdedProject>>, [i \in 1..(U16MAX + 1) |-> BareProject]}
    \cup ListsUpTo({BareProject, OneLangProject}, MaxProjects)

\* the iteration orders of the languages maps of ps.  A list or a map of
\* more than 65535 entries is refused before it is iterated (cache.rs:32,
\* cache.rs:261), so no order is drawn for it
LongOrders(ps) ==
    IF Len(ps) > U16MAX \/ \E i \in 1..Len(ps) : Cardinality(DOMAIN ps[i].languages) > U16MAX
    THEN {<<>>}
    ELSE IterOrders(ps)

InitLen ==
    /\ recs \in LongLists
    /\ out1 = NoSer
    /\ out2 = NoSer
    /\ back = NoCache
    /\ cpc = "start"
    /\ IdleHuff /\ IdleLoad /\ IdleFile /\ IdleMain
    /\ IdleApp

\* Cache::serialize of recs
SerializeLong ==
    /\ cpc = "start"
    /\ \E orders \in LongOrders(recs) : out1' = CacheSerialize(recs, orders)
    /\ cpc' = "once"
    /\ UNCHANGED <<appVars, recs, out2, back, huffVars, loadVars, fileVars, mainVars>>

SpecLen == InitLen /\ [][SerializeLong]_vars

\* ------------------------------------------- loading a file that was edited
\* the projects the files of the load and main models are written from
ScanPool == {BareProject, OneLangProject}

\* every output Cache::serialize can have on ps
Wires(ps) == {CacheSerialize(ps, o).bytes : o \in IterOrders(ps)}

InitLoad ==
    /\ file \in {FileOf(w) : w \in UNION {Wires(ps) : ps \in ListsUpTo(ScanPool, MaxProjects)}}
    /\ dmg = {}
    /\ loaded = NoCache
    /\ got = <<>>
    /\ lpc = "file"
    /\ IdleCodec /\ IdleHuff /\ IdleMain
    /\ IdleApp

\* one of the four magic bytes is altered
AlterMagic ==
    /\ lpc = "file"
    /\ "magic" \notin dmg
    /\ \E i \in 1..4 :
          /\ i <= Len(file.bytes)
          /\ file' = FileOf([file.bytes EXCEPT ![i] = (file.bytes[i] + 1) % 256])
    /\ dmg' = dmg \cup {"magic"}
    /\ UNCHANGED <<appVars, loaded, got, lpc, codecVars, huffVars, mainVars>>

\* the version byte is incremented
BumpVersion ==
    /\ lpc = "file"
    /\ "version" \notin dmg
    /\ 5 <= Len(file.bytes)
    /\ file' = FileOf([file.bytes EXCEPT ![5] = (file.bytes[5] + 1) % 256])
    /\ dmg' = dmg \cup {"version"}
    /\ UNCHANGED <<appVars, loaded, got, lpc, codecVars, huffVars, mainVars>>

\* the file is cut to a strict prefix
Truncate ==
    /\ lpc = "file"
    /\ dmg \cap {"truncated", "body"} = {}
    /\ \E k \in 0..(Len(file.bytes) - 1) : file' = FileOf(SubSeq(file.bytes, 1, k))
    /\ dmg' = dmg \cup {"truncated"}
    /\ UNCHANGED <<appVars, loaded, got, lpc, codecVars, huffVars, mainVars>>

\* one byte after the header becomes 0xFF
Corrupt ==
    /\ lpc = "file"
    /\ dmg \cap {"truncated", "body"} = {}
    /\ \E i \in 6..Len(file.bytes) :
          /\ file.bytes[i] # 255
          /\ file' = FileOf([file.bytes EXCEPT ![i] = 255])
    /\ dmg' = dmg \cup {"body"}
    /\ UNCHANGED <<appVars, loaded, got, lpc, codecVars, huffVars, mainVars>>

\* Cache::read_cache on the file
Load ==
    /\ lpc = "file"
    /\ loaded' = ReadCacheResult(TRUE, file)
    /\ got' = ReadCache(TRUE, file)
    /\ lpc' = "loaded"
    /\ UNCHANGED <<appVars, file, dmg, codecVars, huffVars, mainVars>>

NextLoad == AlterMagic \/ BumpVersion \/ Truncate \/ Corrupt \/ Load

SpecLoad == InitLoad /\ [][NextLoad]_vars

\* ------------------------------- loading a file with an ill-formed string
\* byte strings that are not UTF-8: a byte no encoding uses, a lead byte
\* without its continuation, a lone continuation byte, an overlong encoding,
\* a surrogate, and a good byte before a bad one
BadStrings == {<<255>>, <<195>>, <<128>>, <<192, 128>>, <<237, 160, 128>>, <<97, 255>>}

\* the string fields of a record
StringFields ==
    {"path", "remote_url", "init_date", "last_commit_date", "last_commit_msg", "key"}

\* the record p with the string field f, or the language name key, set to b
WithString(p, f, key, b) ==
    CASE f = "path" -> [p EXCEPT !.path = b]
      [] f = "remote_url" -> [p EXCEPT !.git_info.remote_url = b]
      [] f = "init_date" -> [p EXCEPT !.git_info.init_date = b]
      [] f = "last_commit_date" -> [p EXCEPT !.git_info.last_commit_date = b]
      [] f = "last_commit_msg" -> [p EXCEPT !.git_info.last_commit_msg = b]
      [] OTHER -> [p EXCEPT !.languages =
                      [k \in (DOMAIN p.languages \ {key}) \cup {b} |->
                          IF k = b THEN p.languages[key] ELSE p.languages[k]]]

\* the bytes of a record in the layout Project::deserialize reads, the path
\* written byte for byte
RawProject(p, order) ==
    LenPrefixed(p.path).bytes
        \o SubSeq(ProjectSerialize(p, order).bytes,
                  3 + Len(ToStringLossy(p.path)),
                  Len(ProjectSerialize(p, order).bytes))

\* a cache file holding the records ps in the layout Cache::deserialize reads
RawWire(ps, orders) ==
    SerAll(<<SerOk(MAGIC \o <<VERSION>>), SerOk(U16ToLE(Len(ps)))>>
           \o [i \in 1..Len(ps) |-> SerOk(RawProject(ps[i], orders[i]))]).bytes

InitUtf8 ==
    /\ recs \in ListsUpTo(ScanPool, MaxProjects)
    /\ file \in {FileOf(RawWire(recs, o)) : o \in IterOrders(recs)}
    /\ dmg = {}
    /\ loaded = NoCache
    /\ got = <<>>
    /\ lpc = "file"
    /\ out1 = NoSer
    /\ out2 = NoSer
    /\ back = NoCache
    /\ cpc = "idle"
    /\ IdleHuff /\ IdleMain
    /\ IdleApp

\* one string field of one record of the file is overwritten, with its
\* length, by bytes that are not UTF-8
SpoilString ==
    /\ lpc = "file"
    /\ dmg = {}
    /\ \E i \in 1..Len(recs), f \in StringFields, b \in BadStrings :
       \E key \in (IF f = "key" THEN DOMAIN recs[i].languages ELSE {<<>>}) :
          /\ recs' = [recs EXCEPT ![i] = WithString(recs[i], f, key, b)]
          /\ \E o \in IterOrders(recs') : file' = FileOf(RawWire(recs', o))
          /\ dmg' = {f}
    /\ UNCHANGED <<appVars, out1, out2, back, cpc, loaded, got, lpc, huffVars, mainVars>>

\* Cache::read_cache on the file
LoadSpoiled ==
    /\ lpc = "file"
    /\ loaded' = ReadCacheResult(TRUE, file)
    /\ got' = ReadCache(TRUE, file)
    /\ lpc' = "loaded"
    /\ UNCHANGED <<appVars, file, dmg, codecVars, huffVars, mainVars>>

NextUtf8 == SpoilString \/ LoadSpoiled

SpecUtf8 == InitUtf8 /\ [][NextUtf8]_vars

\* ----------------------------------------------- src/sorting.rs, src/app.rs
\* Sorting::next, Sorting::previous
SortingNext(t) ==
    CASE t = "Name" -> "Size"
      [] t = "Size" -> "Commits"
      [] t = "Commits" -> "CreationDate"
      [] t = "CreationDate" -> "ModificationDate"
      [] t = "ModificationDate" -> "Loc"
      [] OTHER -> "Name"

SortingPrevious(t) ==
    CASE t = "Loc" -> "ModificationDate"
      [] t = "ModificationDate" -> "CreationDate"
      [] t = "CreationDate" -> "Commits"
      [] t = "Commits" -> "Size"
      [] t = "Size" -> "Name"
      [] OTHER -> "Loc"

\* Filter::next, Filter::previous
FilterNext(t) ==
    CASE t = "All" -> "Owned"
      [] t = "Owned" -> "NotOwned"
      [] t = "NotOwned" -> "HasRemote"
      [] t = "HasRemote" -> "NoRemote"
      [] OTHER -> "All"

FilterPrevious(t) ==
    CASE t = "NoRemote" -> "HasRemote"
      [] t = "HasRemote" -> "NotOwned"
      [] t = "NotOwned" -> "Owned"
      [] t = "Owned" -> "All"
      [] OTHER -> "NoRemote"

\* `cmp` of two strings or single-component paths: s before t
RECURSIVE LexLess(_, _)
LexLess(s, t) ==
    IF t = <<>> THEN FALSE
    ELSE IF s = <<>> THEN TRUE
    ELSE IF Head(s) # Head(t) THEN Head(s) < Head(t)
    ELSE LexLess(Tail(s), Tail(t))

\* the comparison sort_projects sorts by under sort_type: x before y
LessBy(sort_type, x, y) ==
    CASE sort_type = "Name" -> LexLess(x.path, y.path)
      [] sort_type = "Size" -> x.size < y.size
      [] sort_type = "Commits" -> x.git_info.commit_count < y.git_info.commit_count
      [] sort_type = "CreationDate" -> LexLess(x.git_info.init_date, y.git_info.init_date)
      [] sort_type = "ModificationDate" ->
             LexLess(x.git_info.last_commit_date, y.git_info.last_commit_date)
      [] OTHER -> x.languages_total.lines < y.languages_total.lines

\* `sort_by`, a stable sort: x goes before the first item it is less than
RECURSIVE InsertStable(_, _, _)
InsertStable(sorted, x, sort_type) ==
    IF sorted = <<>> THEN <<x>>
    ELSE IF LessBy(sort_type, x, Head(sorted)) THEN <<x>> \o sorted
    ELSE <<Head(sorted)>> \o InsertStable(Tail(sorted), x, sort_type)

RECURSIVE SortBy(_, _)
SortBy(items, sort_type) ==
    IF items = <<>> THEN <<>>
    ELSE InsertStable(SortBy(SubSeq(items, 1, Len(items) - 1), sort_type),
                      items[Len(items)], sort_type)

\* ProjectsList::sort_projects under the sort_type and invert of a
SortProjects(a) ==
    [a EXCEPT !.items = IF a.invert THEN Reverse(SortBy(a.items, a.sort_type))
                        ELSE SortBy(a.items, a.sort_type),
              !.selected = <<0>>]

\* `split('/')`: the pieces of s between the bytes '/'
RECURSIVE Split(_, _)
Split(s, piece) ==
    IF s = <<>> THEN <<piece>>
    ELSE IF Head(s) = 47 THEN <<piece>> \o Split(Tail(s), <<>>)
    ELSE Split(Tail(s), Append(piece, Head(s)))

\* get_remote_username: the fourth piece of the remote url, "" without one.
\* remote_url is an Option here: <<>> for None, <<url>> for Some(url)
GetRemoteUsername(project) ==
    IF project.git_info.remote_url = <<>> THEN <<>>
    ELSE IF Len(Split(project.git_info.remote_url[1], <<>>)) >= 4
    THEN Split(project.git_info.remote_url[1], <<>>)[4]
    ELSE <<>>

\* the test a project passes under filter_type
Passes(filter_type, username, v) ==
    CASE filter_type = "All" -> TRUE
      [] filter_type = "Owned" -> GetRemoteUsername(v) = username
      [] filter_type = "NotOwned" -> GetRemoteUsername(v) # username
      [] filter_type = "HasRemote" -> v.git_info.remote_url # <<>>
      [] OTHER -> v.git_info.remote_url = <<>>

\* `into_iter().filter(..).collect()`
RECURSIVE FilterSeq(_, _, _)
FilterSeq(items, filter_type, username) ==
    IF items = <<>> THEN <<>>
    ELSE (IF Passes(filter_type, username, Head(items)) THEN <<Head(items)>> ELSE <<>>)
         \o FilterSeq(Tail(items), filter_type, username)

\* ProjectsList::filter_projects under the filter_type of a
FilterProjects(a) ==
    [a EXCEPT !.items = FilterSeq(a.items_state, a.filter_type, a.git_name),
              !.selected = IF FilterSeq(a.items_state, a.filter_type, a.git_name) = <<>>
                           THEN <<>> ELSE <<0>>]

\* `contains`
Contains(hay, needle) ==
    \E i \in 0..Len(hay) :
        i + Len(needle) <= Len(hay) /\ SubSeq(hay, i + 1, i + Len(needle)) = needle

\* filtered_indices of ProjectsList::search, 0-based and ascending
RECURSIVE FilteredIndices(_, _, _)
FilteredIndices(items, search_text, n) ==
    IF n = 0 THEN <<>>
    ELSE FilteredIndices(items, search_text, n - 1)
         \o (IF Contains(ToStringLossy(items[n].path), search_text)
             THEN <<n - 1>> ELSE <<>>)

\* `self.search_count = self.projects_list.search(text, self.search_index)`,
\* text being the search_text of a or "" without one
Search(a) ==
    LET text == IF a.search_text = <<>> THEN <<>> ELSE a.search_text[1]
        filtered_indices == FilteredIndices(a.items, text, Len(a.items))
    IN  [a EXCEPT !.selected = IF a.search_index < Len(filtered_indices)
                               THEN <<filtered_indices[a.search_index + 1]>>
                               ELSE <<>>,
                  !.search_count = Len(filtered_indices)]

\* `self.search_index >= self.search_count.wrapping_sub(1)`: for a count of 0
\* the right side is usize::MAX, which no index of a bounded run reaches
AtLastMatch(a) ==
    IF a.search_count = 0 THEN FALSE ELSE a.search_index >= a.search_count - 1

\* key events: a press of a character key, a press of another key, a release
Press(code, c) == [kind |-> "Press", code |-> code, c |-> c]
Char(c) == Press("Char", c)

\* the characters q j 1 2 h l i y o / a
KeyChars == {113, 106, 49, 50, 104, 108, 105, 121, 111, 47, 97}

Keys ==
    {Char(c) : c \in KeyChars}
    \cup {Press(code, 0) : code \in {"Esc", "Enter", "Backspace", "Down", "Left", "Right", "F1"}}
    \cup {[kind |-> "Release", code |-> "Esc", c |-> 0]}

\* what a movement key can leave selected: ListState moves and clamps the
\* selection outside this repository, so any position of the list or none
AnySelection(items) == {<<>>} \cup {<<i>> : i \in 0..(Len(items) - 1)}

\* App::handle_key: the App values it can leave
HandleKey(a, k) ==
    IF k.kind # "Press" THEN {a}
    ELSE CASE k = Char(113) \/ k.code = "Esc" -> {[a EXCEPT !.should_exit = TRUE]}
           [] k = Char(106) \/ k.code = "Down" ->
                  {[a EXCEPT !.selected = sel] : sel \in AnySelection(a.items)}
           [] k = Char(49) -> {[a EXCEPT !.show_project_info = ~a.show_project_info]}
           [] k = Char(50) -> {[a EXCEPT !.show_languages = ~a.show_languages]}
           [] k = Char(104) \/ k.code = "Left" ->
                  {SortProjects([a EXCEPT !.sort_type = SortingPrevious(a.sort_type)])}
           [] k = Char(108) \/ k.code = "Right" ->
                  {SortProjects([a EXCEPT !.sort_type = SortingNext(a.sort_type)])}
           [] k = Char(105) -> {SortProjects([a EXCEPT !.invert = ~a.invert])}
           [] k = Char(121) ->
                  {FilterProjects([a EXCEPT !.filter_type = FilterPrevious(a.filter_type)])}
           [] k = Char(111) ->
                  {FilterProjects([a EXCEPT !.filter_type = FilterNext(a.filter_type)])}
           [] k = Char(47) ->
                  {[a EXCEPT !.search_text = IF a.search_text # <<>> THEN <<>> ELSE <<<<>>>>]}
           [] OTHER -> {a}

\* App::handle_search_key, called with a search_text present
HandleSearchKey(a, k) ==
    IF k.kind # "Press" THEN a
    ELSE CASE k.code = "Esc" -> [a EXCEPT !.search_text = <<>>, !.search_index = 0]
           [] k.code = "Char" ->
                  Search([a EXCEPT !.search_text = <<Append(a.search_text[1], k.c)>>])
           [] k.code = "Backspace" ->
                  Search([a EXCEPT !.search_text =
                              <<SubSeq(a.search_text[1], 1, Len(a.search_text[1]) - 1)>>])
           [] k.code = "Enter" ->
                  IF AtLastMatch(Search(a))
                  THEN [Search(a) EXCEPT !.search_index = 0]
                  ELSE [Search(a) EXCEPT !.search_index = Search(a).search_index + 1]
           [] OTHER -> a

\* a loop that hands every key to handle_key
RunKeyNoCapture(a, k) == HandleKey(a, k)

\* the body of the loop of App::run for the key event k
RunKey(a, k) ==
    IF a.search_text # <<>> THEN {HandleSearchKey(a, k)} ELSE HandleKey(a, k)

\* App::new
AppNew(projects_list, git_name) ==
    [should_exit |-> FALSE, show_project_info |-> TRUE, show_languages |-> TRUE,
     sort_type |-> "Name", filter_type |-> "All",
     items |-> projects_list, items_state |-> projects_list, selected |-> <<>>,
     invert |-> FALSE, git_name |-> git_name,
     search_text |-> <<>>, search_index |-> 0, search_count |-> 0]

\* ------------------------------------------------------ the keys of the App
\* the projects of the display: paths "qa", "a", "aq"; the first without a
\* remote, the others at "h://g/u/r" and "h://g/v/r"
AppProjects ==
    <<[path |-> <<113, 97>>, size |-> 30,
       git_info |-> [remote_url |-> <<>>, init_date |-> <<50>>,
                     last_commit_date |-> <<53>>, commit_count |-> 0],
       languages_total |-> [lines |-> 10]],
      [path |-> <<97>>, size |-> 10,
       git_info |-> [remote_url |-> <<<<104, 58, 47, 47, 103, 47, 117, 47, 114>>>>,
                     init_date |-> <<51>>, last_commit_date |-> <<52>>,
                     commit_count |-> 5],
       languages_total |-> [lines |-> 30]],
      [path |-> <<97, 113>>, size |-> 20,
       git_info |-> [remote_url |-> <<<<104, 58, 47, 47, 103, 47, 118, 47, 114>>>>,
                     init_date |-> <<49>>, last_commit_date |-> <<54>>,
                     commit_count |-> 5],
       languages_total |-> [lines |-> 20]]>>

\* the lists main hands to App::new: none of the projects, or all three
AppLists == {<<>>, AppProjects}

\* user.name of the git configuration: absent, or "u"
GitNames == {<<>>, <<117>>}

InitApp ==
    /\ app \in {AppNew(l, g) : l \in AppLists, g \in GitNames}
    /\ key_event = NoKey
    /\ presses = 0
    /\ IdleCodec /\ IdleHuff /\ IdleLoad /\ IdleFile /\ IdleMain

\* one turn of the loop of App::run: a key event is read and handled
KeyPress ==
    /\ ~app.should_exit
    /\ presses < MaxKeys
    /\ \E k \in Keys :
          /\ app' \in RunKey(app, k)
          /\ key_event' = k
    /\ presses' = presses + 1
    /\ UNCHANGED <<codecVars, huffVars, loadVars, fileVars, mainVars>>

SpecApp == InitApp /\ [][KeyPress]_vars

\* --------------------------------------------------------- one run of main
Modes == {"default", "fresh", "no-cache"}

\* what projects::find can return
ScanLists == ListsUpTo(ScanPool, MaxScan)

\* the files an earlier run can have left: every file save_cache can write,
\* and the files of at most one project damaged since: cut short, one byte
\* overwritten, the magic altered, the version incremented
MainFiles ==
    {NoFile}
    \cup {FileOf(w) : w \in UNION {Wires(ps) : ps \in ScanLists}}
    \cup UNION {
        {FileOf(SubSeq(w, 1, k)) : k \in 0..(Len(w) - 1)}
        \cup {FileOf([w EXCEPT ![i] = 255]) : i \in 6..Len(w)}
        \cup {FileOf([w EXCEPT ![i] = (w[i] + 1) % 256]) : i \in 1..5}
        : w \in UNION {Wires(ps) : ps \in {l \in ScanLists : Len(l) <= 1}}}

InitMain ==
    /\ file \in MainFiles
    /\ mode \in Modes
    /\ found = <<>>
    /\ scanned = FALSE
    /\ saveLog = "none"
    /\ shown = <<>>
    /\ loaded = NoCache
    /\ got = <<>>
    /\ pc = "start"
    /\ IdleCodec /\ IdleHuff /\ IdleLoad
    /\ IdleApp

\* main stops before it looks at the cache: no config directory, no log
\* file, bad options, --help, --gen-config, or no directory to search
MainBail ==
    /\ pc = "start"
    /\ pc' = "exit"
    /\ UNCHANGED <<appVars, file, loaded, got, mode, found, scanned, saveLog, shown,
                   codecVars, huffVars, loadVars>>

\* main obtains `projects` and reaches the display
MainLoad ==
    /\ pc = "start"
    /\ \E fnd \in ScanLists, pre_ok \in BOOLEAN, write_ok \in BOOLEAN :
       \E orders \in IterOrders(fnd) :
          LET r == LoadProjects(mode, file, fnd, pre_ok, write_ok, orders)
          IN  /\ found' = IF r.scanned THEN fnd ELSE <<>>
              /\ scanned' = r.scanned
              /\ file' = r.file
              /\ saveLog' = r.log
              /\ loaded' = r.loaded
              /\ got' = UnwrapOrDefault(r.loaded)
              /\ shown' = r.projects
              /\ pc' = IF r.exit THEN "exit" ELSE "display"
    /\ UNCHANGED <<appVars, mode, codecVars, huffVars, loadVars>>

Next == MainBail \/ MainLoad

Spec == InitMain /\ [][Next]_vars

\* every path of recs is valid UTF-8, so that to_string_lossy changes nothing
PathsAreUtf8 == \A i \in 1..Len(recs) : IsUtf8(recs[i].path)

\* C1 as stated: for every list of project records, deserializing the
\* output of Cache::serialize gives back a list equal to the input, record
\* by record and field by field.
C1_RoundTripEveryRecord ==
    cpc = "decoded" => (back.ok /\ back.projects = recs)

\* C1, amended: for every list of project records whose paths are valid
\* UTF-8, deserializing the output of Cache::serialize gives back a list
\* equal to the input: same length and order, and per record the same path,
\* size, git_info, languages map and languages_total.
C1_RoundTrip ==
    (cpc = "decoded" /\ PathsAreUtf8) =>
        /\ back.ok
        /\ Len(back.projects) = Len(recs)
        /\ \A i \in 1..Len(recs) :
              /\ back.projects[i].path = recs[i].path
              /\ back.projects[i].size = recs[i].size
              /\ back.projects[i].git_info = recs[i].git_info
              /\ DOMAIN back.projects[i].languages = DOMAIN recs[i].languages
              /\ \A k \in DOMAIN recs[i].languages :
                    back.projects[i].languages[k] = recs[i].languages[k]
              /\ back.projects[i].languages_total = recs[i].languages_total

\* two records, one of them with several languages, came back equal
C1_Witness ==
    /\ cpc = "decoded"
    /\ PathsAreUtf8
    /\ Len(recs) = 2
    /\ \E i \in 1..Len(recs) : Cardinality(DOMAIN recs[i].languages) >= 2
    /\ back.ok
    /\ back.projects = recs

\* C5: serializing the same record list twice yields byte-identical output,
\* whatever order the languages maps iterate their entries in.
C5_SerializeDeterministic ==
    cpc = "twice" => out1 = out2

\* C2: for every non-empty buffer b, huffman_decode(huffman_encode(b)) is Ok
\* with a buffer equal to b.
C2_HuffmanRoundTrip ==
    (hpc = "decoded" /\ Len(hbuf) >= 1) => (hdec.ok /\ hdec.bytes = hbuf)

\* C6: huffman_encode gives the same tree, the same code for every symbol
\* and the same bytes on every execution.
C6_HuffmanDeterministic ==
    (hpc = "again" /\ ~henc.panic /\ ~henc2.panic) =>
        /\ henc.root = henc2.root
        /\ henc.table = henc2.table
        /\ henc.bytes = henc2.bytes

\* C10: for a buffer of n >= 1 copies of one byte value the symbol gets a
\* code of at least one bit and decoding returns the n bytes.
C10_DegenerateAlphabet ==
    (hpc = "decoded" /\ Cardinality(Distinct(hbuf)) = 1) =>
        /\ \A c \in Distinct(hbuf) : Len(henc.table[c]) >= 1
        /\ hdec.ok
        /\ hdec.bytes = hbuf

\* the serialized record payload: project_count and the records, which
\* Cache::serialize puts after MAGIC and VERSION
Payload(ps, orders) ==
    SubSeq(CacheSerialize(ps, orders).bytes, 6, Len(CacheSerialize(ps, orders).bytes))

\* enc is an output huffman_encode can have on buffer: the table size, the
\* table entries of one of the possible trees in any order, the packed bits
IsHuffmanEncoding(enc, buffer) ==
    /\ buffer # <<>>
    /\ Len(enc) >= 2 + 4 * Cardinality(Distinct(buffer))
    /\ U16FromLE(SubSeq(enc, 1, 2)) = (4 * Cardinality(Distinct(buffer))) % 65536
    /\ \E fs \in GetFrequencies(buffer) : \E root \in HuffmanTable(fs) :
          /\ {SubSeq(enc, 4 * k - 1, 4 * k + 2) : k \in 1..Cardinality(Distinct(buffer))}
                = {TableBytes(LookupTable(root, <<>>), <<c>>) : c \in Distinct(buffer)}
          /\ SubSeq(enc, 3 + 4 * Cardinality(Distinct(buffer)), Len(enc))
                = PackBits(BitStream(buffer, LookupTable(root, <<>>)))

\* what load returns when everything after the 5-byte header is
\* Huffman-decompressed before the record deserializer runs
LoadCompressed(bytes, checked) ==
    IF Len(bytes) < 5 \/ HuffmanDecode(SubSeq(bytes, 6, Len(bytes)), checked).panic
                      \/ ~HuffmanDecode(SubSeq(bytes, 6, Len(bytes)), checked).ok
    THEN <<>>
    ELSE UnwrapOrDefault(CacheDeserialize(
             SubSeq(bytes, 1, 5) \o HuffmanDecode(SubSeq(bytes, 6, Len(bytes)), checked).bytes))

\* C3: the bytes after the 5-byte header of a written cache file are an
\* output of huffman_encode on the serialized record payload, and a load
\* returns what the record deserializer makes of the Huffman-decompressed
\* rest of the file.
C3_CompressedOnDisk ==
    /\ (pc = "display" /\ saveLog = "wrote") =>
          /\ SubSeq(file.bytes, 1, 5) = MAGIC \o <<VERSION>>
          /\ \E orders \in IterOrders(found) :
                IsHuffmanEncoding(SubSeq(file.bytes, 6, Len(file.bytes)),
                                  Payload(found, orders))
    /\ (pc = "display" /\ mode = "default" /\ saveLog = "none" /\ file.exists) =>
          \E checked \in BOOLEAN : got = LoadCompressed(file.bytes, checked)

\* C4: a file whose first four bytes are not the magic fails to load with
\* the magic-mismatch error, and a file with the magic and another version
\* byte fails with the version-mismatch error; in both cases no record has
\* been decoded and nothing is returned.  The magic is compared first.
C4_HeaderFirst ==
    lpc = "loaded" =>
        /\ (Len(file.bytes) >= 4 /\ SubSeq(file.bytes, 1, 4) # MAGIC) =>
              /\ ~loaded.ok
              /\ loaded.err = MagicMismatch
              /\ loaded.partial = <<>>
              /\ got = <<>>
        /\ (Len(file.bytes) >= 5 /\ SubSeq(file.bytes, 1, 4) = MAGIC
                /\ file.bytes[5] # VERSION) =>
              /\ ~loaded.ok
              /\ loaded.err = VersionMismatch
              /\ loaded.partial = <<>>
              /\ got = <<>>

\* a file of two records with both the magic and the version wrong, and a
\* damaged body, was refused for its magic
C4_Witness ==
    /\ lpc = "loaded"
    /\ dmg = {"magic", "version", "body"}
    /\ Len(file.bytes) > 100
    /\ SubSeq(file.bytes, 1, 4) # MAGIC
    /\ file.bytes[5] # VERSION
    /\ loaded.err = MagicMismatch

\* C7: after a --fresh run in which create_cache returned Ok and no write
\* failed, the cache file holds the encoding of the list just scanned, also
\* when a cache file existed before.
C7_RewrittenOnRefresh ==
    (pc = "display" /\ mode = "fresh" /\ saveLog \in {"wrote", "exists"}) =>
        /\ file.exists
        /\ file.bytes \in Wires(found)

\* C8: in default mode, when the cache file cannot be read or its decoding
\* fails, the run rescans and reaches the display with what the scan and
\* create_cache gave; it does not exit.
C8_LoadFailureIsCacheMiss ==
    (pc # "start" /\ mode = "default" /\ loaded # NoCache /\ ~loaded.ok) =>
        /\ pc = "display"
        /\ scanned
        /\ got = <<>>
        /\ shown = IF saveLog = "bail" THEN <<>> ELSE found

\* a default-mode run found a cache file it could not decode, rescanned and
\* displays the project it found
C8_Witness ==
    /\ pc = "display"
    /\ mode = "default"
    /\ file.exists
    /\ ~loaded.ok
    /\ loaded.err \in {MagicMismatch, VersionMismatch, UnexpectedEof, FromUtf8Error}
    /\ scanned
    /\ found # <<>>
    /\ shown = found

\* C9: a load returns either the empty list, after a failure, or exactly as
\* many records as the file declares, all decoded; never the records decoded
\* before a failure.
C9_AllOrNothing ==
    lpc = "loaded" =>
        \/ /\ ~loaded.ok
           /\ got = <<>>
        \/ /\ loaded.ok
           /\ Len(file.bytes) >= 7
           /\ Len(got) = U16FromLE(SubSeq(file.bytes, 6, 7))
           /\ got = loaded.projects
           /\ file.bytes \in Wires(got)

\* the first record of a two-record file had been decoded when the second
\* one failed, and nothing was returned
C9_Witness ==
    /\ lpc = "loaded"
    /\ Len(file.bytes) >= 7
    /\ U16FromLE(SubSeq(file.bytes, 6, 7)) = 2
    /\ ~loaded.ok
    /\ Len(loaded.partial) = 1
    /\ got = <<>>

\* C11: huffman_encode of the empty buffer returns without a panic the two
\* bytes of a table length of 0, with no table entry and no bit-stream byte,
\* and huffman_decode of them returns the empty buffer.
C11_EmptyBuffer ==
    (hpc # "start" /\ hbuf = <<>>) =>
        /\ ~henc.panic
        /\ henc.table = <<>>
        /\ henc.bytes = <<0, 0>>
        /\ hpc = "decoded" => (hdec.ok /\ hdec.bytes = <<>>)

\* every string of ps, taking the path as the PathBuf holds it, has at most
\* 65535 bytes and the list and every languages map at most 65535 entries
FitsAsHeld(ps) ==
    /\ Len(ps) <= U16MAX
    /\ \A i \in 1..Len(ps) :
          /\ Len(ps[i].path) <= U16MAX
          /\ Len(ps[i].git_info.remote_url) <= U16MAX
          /\ Len(ps[i].git_info.init_date) <= U16MAX
          /\ Len(ps[i].git_info.last_commit_date) <= U16MAX
          /\ Len(ps[i].git_info.last_commit_msg) <= U16MAX
          /\ Cardinality(DOMAIN ps[i].languages) <= U16MAX
          /\ \A k \in DOMAIN ps[i].languages : Len(k) <= U16MAX

\* the same with the path taken as it is written, after to_string_lossy
FitsAsWritten(ps) ==
    /\ FitsAsHeld(ps)
    /\ \A i \in 1..Len(ps) : Len(ToStringLossy(ps[i].path)) <= U16MAX

\* C12 as stated: serializing succeeds when every string has at most 65535
\* bytes and every collection at most 65535 entries, and otherwise fails
\* with the length-overflow error and no bytes.
C12_LengthOverflowAsHeld ==
    cpc = "once" =>
        IF FitsAsHeld(recs) THEN out1.ok ELSE out1 = SerErr(TryFromIntError)

\* C12, amended: serializing succeeds, with the path's length prefix equal
\* to the number of path bytes written, when every string as it is written
\* (the path after its lossy conversion to UTF-8) has at most 65535 bytes and
\* every collection at most 65535 entries, and otherwise fails with the
\* length-overflow error and no bytes.
C12_LengthOverflow ==
    cpc = "once" =>
        IF FitsAsWritten(recs)
        THEN /\ out1.ok
             /\ Len(recs) >= 1 =>
                   U16FromLE(SubSeq(out1.bytes, 8, 9)) = Len(ToStringLossy(recs[1].path))
        ELSE out1 = SerErr(TryFromIntError)

\* a record whose path has exactly 65535 bytes was serialized with the
\* length prefix FF FF
C12_Witness ==
    /\ cpc = "once"
    /\ Len(recs) = 1
    /\ Len(recs[1].path) = U16MAX
    /\ out1.ok
    /\ SubSeq(out1.bytes, 8, 9) = <<255, 255>>
    /\ Len(out1.bytes) > U16MAX

\* C13: every strict prefix of the output of Cache::serialize fails to
\* load: the decoder ends with the error of a read that wants more bytes
\* than remain, and no record list is returned.
C13_TruncatedFails ==
    (lpc = "loaded" /\ dmg = {"truncated"}) =>
        /\ ~loaded.ok
        /\ loaded.err = UnexpectedEof
        /\ loaded.projects = <<>>
        /\ got = <<>>

\* a file of two records cut inside its second record was refused after the
\* first record had been decoded
C13_Witness ==
    /\ lpc = "loaded"
    /\ dmg = {"truncated"}
    /\ Len(file.bytes) > 7
    /\ Len(loaded.partial) = 1
    /\ loaded.err = UnexpectedEof
    /\ got = <<>>

\* C14: when the tree gives some symbol a code longer than 16 bits the
\* table loop of huffman_encode ends with an error, and every entry it
\* writes has a code_length of at most 16 and a packed_code that holds
\* exactly the bits of the symbol's code.
C14_CodeLengthOverflow ==
    hpc = "packed" =>
        /\ (\E c \in DOMAIN hent.table : Len(hent.table[c]) > 16) =>
              (~hent.panic /\ hent.err # "" /\ hent.entries = {})
        /\ \A e \in hent.entries :
              /\ e[2] <= 16
              /\ CodeBits(U16FromLE(<<e[3], e[4]>>), e[2]) = hent.table[e[1]]

\* a is a prefix of b, or equal to it
IsPrefix(a, b) == Len(a) <= Len(b) /\ SubSeq(b, 1, Len(a)) = a

\* C15: for a buffer with at least two distinct byte values the table of
\* huffman_encode has one code for each byte value of the buffer and for no
\* other, and no code is a prefix of, or equal to, the code of another symbol.
C15_PrefixCode ==
    (hpc # "start" /\ ~henc.panic /\ Cardinality(Distinct(hbuf)) >= 2) =>
        /\ DOMAIN henc.table = Distinct(hbuf)
        /\ \A c \in DOMAIN henc.table : \A e \in DOMAIN henc.table :
              c # e => ~IsPrefix(henc.table[c], henc.table[e])

\* a buffer of three byte values was encoded with codes of one and two bits
C15_Witness ==
    /\ hpc = "encoded"
    /\ ~henc.panic
    /\ Cardinality(Distinct(hbuf)) = 3
    /\ {Len(henc.table[c]) : c \in DOMAIN henc.table} = {1, 2}

\* C16: a serialized record is path_len + path, size, remote_len + remote,
\* two dates of 4 bytes each, msg_len + msg, commit_count, lang_count, 21
\* bytes per language and 20 bytes of totals: with one record in the cache,
\* the bytes after the 7 bytes of header and count number
\* 48 + |path| + |remote| + |msg| + 21 * lang_count.
C16_FixedLayout ==
    (cpc = "once" /\ out1.ok /\ Len(recs) = 1) =>
        Len(out1.bytes) - 7 =
            48 + Len(recs[1].path) + Len(recs[1].git_info.remote_url)
               + Len(recs[1].git_info.last_commit_msg)
               + 21 * Cardinality(DOMAIN recs[1].languages)

\* C17: when saving the cache fails during a refresh (no config directory,
\* serialization error, or write error), the run does not exit: it reaches
\* the display with the project list of the scan just performed.
C17_SaveFailureKeepsScan ==
    (pc # "start" /\ scanned /\ saveLog \in {"bail", "write failed"}) =>
        /\ pc = "display"
        /\ shown = found

\* the (byte, freq) pairs at the leaves of a tree, left to right
RECURSIVE LeavesOf(_)
LeavesOf(node) ==
    IF node.kids = <<>> THEN <<<<node.data[1], node.freq>>>>
    ELSE LeavesOf(node.kids[1]) \o LeavesOf(node.kids[2])

\* every internal node holds no byte and the sum of its children's freq
RECURSIVE SumsUp(_)
SumsUp(node) ==
    \/ node.kids = <<>> /\ node.data # <<>>
    \/ /\ node.kids # <<>>
       /\ node.data = <<>>
       /\ node.freq = node.kids[1].freq + node.kids[2].freq
       /\ SumsUp(node.kids[1])
       /\ SumsUp(node.kids[2])

\* C18: for a buffer of n >= 1 distinct symbols huffman_table makes exactly
\* n - 1 merges and stops with one root; each merge removes the two nodes of
\* lowest freq in the queue and inserts an internal node whose freq is their
\* sum; the root's freq is the buffer length and the tree has exactly one leaf
\* per distinct symbol, holding that symbol's occurrence count.
C18_TreeConstruction ==
    (hpc \in {"merging", "root", "panic"} /\ hbuf # <<>>) =>
        /\ hpc # "panic"
        /\ merges + Cardinality(min_heap) = Cardinality(Distinct(hbuf))
        /\ \A node \in min_heap : SumsUp(node)
        /\ hpop # <<>> =>
              /\ Top(hpop[1], hpop[2]) \in min_heap
              /\ hpop[1].freq <= hpop[2].freq
              /\ \A node \in min_heap \ {Top(hpop[1], hpop[2])} :
                    hpop[2].freq <= node.freq
        /\ hpc = "root" =>
              /\ merges = Cardinality(Distinct(hbuf)) - 1
              /\ \E root \in min_heap :
                    /\ min_heap = {root}
                    /\ root.freq = Len(hbuf)
                    /\ Len(LeavesOf(root)) = Cardinality(Distinct(hbuf))
                    /\ {LeavesOf(root)[i] : i \in 1..Len(LeavesOf(root))}
                         = {<<c, Occurrences(hbuf, c)>> : c \in Distinct(hbuf)}

\* huffman_table returned the root for a buffer of four bytes in three
\* symbols, after two merges
C18_Witness ==
    /\ hpc = "root"
    /\ Len(hbuf) = 4
    /\ Cardinality(Distinct(hbuf)) = 3
    /\ merges = 2
    /\ \E root \in min_heap : root.freq = 4 /\ root.kids # <<>>

\* C19: the zero bits that pad the last byte of the bit stream are not decoded
\* as data: huffman_decode(huffman_encode(b)) never holds more symbols than b.
C19_PaddingNotDecoded ==
    (hpc = "decoded" /\ ~henc.panic /\ hdec.ok) => Len(hdec.bytes) <= Len(hbuf)

\* the bytes of an encoding after the table size and the table
BitRegion(enc) ==
    SubSeq(enc.bytes, 3 + 4 * Cardinality(DOMAIN enc.table), Len(enc.bytes))

\* bit k of a byte sequence, counting from the high bit of the first byte
BitAt(bytes, k) == (bytes[(k - 1) \div 8 + 1] \div Pow2(7 - ((k - 1) % 8))) % 2

\* C20: the bit stream region of an encoding is the codes of the buffer's
\* symbols in buffer order, packed most significant bit first; it takes
\* ceil(total code bits / 8) bytes, and the bits of the last byte that no
\* code fills are 0.
C20_BitPacking ==
    (hpc # "start" /\ ~henc.panic) =>
        /\ 8 * Len(BitRegion(henc)) >= Len(BitStream(hbuf, henc.table))
        /\ 8 * Len(BitRegion(henc)) < Len(BitStream(hbuf, henc.table)) + 8
        /\ \A k \in 1..(8 * Len(BitRegion(henc))) :
              BitAt(BitRegion(henc), k) =
                  IF k <= Len(BitStream(hbuf, henc.table))
                  THEN BitStream(hbuf, henc.table)[k] ELSE 0

\* an encoding whose bit stream fills one byte and part of a second, with a
\* 1 bit in each
C20_Witness ==
    /\ hpc = "encoded"
    /\ ~henc.panic
    /\ Len(BitRegion(henc)) = 2
    /\ Len(BitStream(hbuf, henc.table)) % 8 # 0
    /\ BitRegion(henc)[1] # 0
    /\ BitRegion(henc)[2] # 0

\* the decoding table huffman_decode rebuilds from the bytes of an encoding
RebuiltTable(enc, checked) ==
    DecodeTable(enc.bytes, 2, U16FromLE(SubSeq(enc.bytes, 1, 2)), <<>>, checked)

\* the 4-byte table entries of an encoding, as a sequence
EntriesOf(enc) ==
    [k \in 1..Cardinality(DOMAIN enc.table) |->
        SubSeq(enc.bytes, 4 * k - 1, 4 * k + 2)]

\* C21: for a buffer whose codes are all at most 16 bits, table_len is 4
\* times the number of distinct symbols, the table region holds exactly one
\* entry per symbol with the code left-justified from bit 15 of packed_code,
\* and the decoding table huffman_decode rebuilds maps each symbol's code
\* back to that symbol and has no other entry.
C21_TableRoundTrip ==
    (hpc # "start" /\ ~henc.panic
        /\ \A c \in DOMAIN henc.table : Len(henc.table[c]) <= 16) =>
        /\ U16FromLE(SubSeq(henc.bytes, 1, 2)) = 4 * Cardinality(Distinct(hbuf))
        /\ DOMAIN henc.table = Distinct(hbuf)
        /\ \A c \in Distinct(hbuf) :
              /\ Cardinality({k \in DOMAIN EntriesOf(henc) : EntriesOf(henc)[k][1] = c}) = 1
              /\ \A k \in DOMAIN EntriesOf(henc) :
                    EntriesOf(henc)[k][1] = c =>
                        /\ EntriesOf(henc)[k][2] = Len(henc.table[c])
                        /\ \A i \in 1..16 :
                              (U16FromLE(SubSeq(EntriesOf(henc)[k], 3, 4))
                                    \div Pow2(16 - i)) % 2
                                = IF i <= Len(henc.table[c]) THEN henc.table[c][i] ELSE 0
        /\ RebuiltTable(henc, debug).ok
        /\ RebuiltTable(henc, debug).pos = 2 + 4 * Cardinality(Distinct(hbuf))
        /\ DOMAIN RebuiltTable(henc, debug).val = {henc.table[c] : c \in Distinct(hbuf)}
        /\ \A c \in Distinct(hbuf) : RebuiltTable(henc, debug).val[henc.table[c]] = c

\* an encoding of three symbols with codes of 1 and 2 bits, whose table was
\* rebuilt with three entries
C21_Witness ==
    /\ hpc = "encoded"
    /\ ~henc.panic
    /\ Cardinality(Distinct(hbuf)) = 3
    /\ {Len(henc.table[c]) : c \in DOMAIN henc.table} = {1, 2}
    /\ Len(hbuf) > 3
    /\ RebuiltTable(henc, debug).ok
    /\ Cardinality(DOMAIN RebuiltTable(henc, debug).val) = 3

\* C22: when the bytes of a string field of a record in the payload (path,
\* remote url, a date, commit message, map key) are not valid UTF-8,
\* decoding fails with an error; no record is returned with the bytes
\* replaced or converted.
C22_InvalidUtf8Fails ==
    lpc = "loaded" =>
        IF dmg = {}
        THEN loaded.ok /\ loaded.projects = recs /\ got = recs
        ELSE /\ ~loaded.ok
             /\ loaded.err = FromUtf8Error
             /\ loaded.projects = <<>>
             /\ got = <<>>

\* a file of two records, the name of a language of the second overwritten
\* with ill-formed bytes, was refused after the first record had decoded
C22_Witness ==
    /\ lpc = "loaded"
    /\ dmg = {"key"}
    /\ Len(recs) = 2
    /\ \E k \in DOMAIN recs[2].languages : ~IsUtf8(k)
    /\ loaded.err = FromUtf8Error
    /\ Len(loaded.partial) = 1

\* C23: huffman_decode is total: for every byte string (fewer than 2 bytes,
\* a table_len larger than the data or not a multiple of 4, a table entry
\* with a code_length above 16) it returns Ok or an error value and never
\* aborts on an overflow or an index out of range.
C23_DecodeTotal ==
    hpc = "parsed" => ~hdec.panic

\* C24: in default mode, whenever the cache file exists and decodes, the
\* decoded list is the one displayed and no directory scan is made, also
\* when the decoded list holds no project.
C24_UsableCacheNoRescan ==
    (pc = "display" /\ mode = "default" /\ loaded.ok) =>
        /\ ~scanned
        /\ shown = loaded.projects

\* C28: a run started with --no-cache neither reads nor creates nor modifies
\* the cache file: the file's existence and content after the run are those
\* before it, and the displayed list is the result of the fresh scan.
C28_NoCacheLeavesFile ==
    /\ []((pc = "display" /\ mode = "no-cache") =>
            /\ scanned
            /\ shown = found
            /\ loaded = NoCache
            /\ saveLog = "none")
    /\ [][mode = "no-cache" => file' = file]_vars

\* a --no-cache run displays the project it found while the cache file of an
\* earlier run, which holds something else, is still there
C28_Witness ==
    /\ pc = "display"
    /\ mode = "no-cache"
    /\ found # <<>>
    /\ shown = found
    /\ file.exists
    /\ file.bytes \notin Wires(found)

\* C25: after any sequence of key presses, search_index is 0 whenever
\* search_count is 0 and otherwise search_index < search_count, so the
\* position displayed, search_index + 1, never exceeds the number of matches.
C25_SearchIndexInRange ==
    IF app.search_count = 0 THEN app.search_index = 0
    ELSE app.search_index < app.search_count

\* the keys handle_key sorts on, and those it filters on
SortKeys == {Char(104), Char(108), Char(105), Press("Left", 0), Press("Right", 0)}
FilterKeys == {Char(121), Char(111)}

\* C26: after sort keys (h, l, i) and filter keys (y, o), at least one of
\* them a sort key, the displayed items are exactly the original projects
\* that pass the current filter_type, ordered by the key of the current
\* sort_type, ascending when invert is false and descending when it is true.
C26_DisplayMatchesSortFilter ==
    (/\ app.search_text = <<>>
     /\ key_event \in SortKeys \cup FilterKeys
     /\ (app.sort_type # "Name" \/ app.invert)) =>
        /\ Len(app.items) = Len(FilterSeq(app.items_state, app.filter_type, app.git_name))
        /\ {app.items[i] : i \in 1..Len(app.items)}
             = {v \in {app.items_state[i] : i \in 1..Len(app.items_state)} :
                    Passes(app.filter_type, app.git_name, v)}
        /\ \A i, j \in 1..Len(app.items) :
              i < j => IF app.invert
                       THEN ~LessBy(app.sort_type, app.items[i], app.items[j])
                       ELSE ~LessBy(app.sort_type, app.items[j], app.items[i])

\* C27: while search mode is active (search_text is present) no key press
\* changes should_exit, sort_type, filter_type, invert, the two panel
\* toggles or the displayed item list; Esc is the only key that leaves
\* search mode, and it resets search_index to 0.
C27_SearchCapturesKeys ==
    [][app.search_text # <<>> =>
          /\ app'.should_exit = app.should_exit
          /\ app'.sort_type = app.sort_type
          /\ app'.filter_type = app.filter_type
          /\ app'.invert = app.invert
          /\ app'.show_project_info = app.show_project_info
          /\ app'.show_languages = app.show_languages
          /\ app'.items = app.items
          /\ app'.search_text = <<>> =>
                (key_event' = Press("Esc", 0) /\ app'.search_index = 0)
          /\ key_event' = Press("Esc", 0) =>
                (app'.search_text = <<>> /\ app'.search_index = 0)]_vars

\* in search mode the text holds the characters q and i, the keys that quit
\* and invert outside it, and the App is still running, sorted as before
C27_Witness ==
    /\ app.search_text = <<<<113, 105>>>>
    /\ key_event = Char(105)
    /\ presses = 4
    /\ app.sort_type = "Size"
    /\ ~app.invert
    /\ ~app.should_exit
    /\ Len(app.items) = 3

====
